---- MODULE Spec2Model ----
(***************************************************************************)
(* A model of tun-rs: the two OsTun backends (src/src/linux.rs and         *)
(* src/src/freebsd.rs), the TunDevice wrapper of src/src/lib.rs and the    *)
(* ChannelTun pair of src/src/channel.rs.                                  *)
(*                                                                         *)
(* The process's descriptor table, the kernel's view of the interface and  *)
(* the OS requests made by the last operation are state; every libc call   *)
(* of the source is a helper that threads a kernel record                  *)
(* [fdtab, iface, calls] through the handler that makes it.  The outcome   *)
(* of each OS call is an input of the action.                              *)
(***************************************************************************)
EXTENDS Integers, Sequences, FiniteSets, TLC

\* ------------------------------------------------------------------------
\* Bounds of the model
\* ------------------------------------------------------------------------
MaxPrefix == 33     \* prefix lengths 0..MaxPrefix are tried (u8 in the source)
MaxPayload == 2     \* longest packet payload written or delivered
MaxBuf == 5         \* longest caller buffer given to read_packet
MaxRefs == 2        \* TunDevice clones sharing one OsTun
MaxMsg == 12        \* longest message written to a ChannelTun ("Hello, there")
MaxStream == 14     \* most bytes written to a ChannelTun pair, both sides together
MaxQueue == 2       \* most messages waiting in one channel

\* ------------------------------------------------------------------------
\* Program constants
\* ------------------------------------------------------------------------
IFNAMSIZ == 16      \* libc::IFNAMSIZ
HdrLen == 4         \* let mut hdr = [0u8; 4]

\* ------------------------------------------------------------------------
\* Machine integers.  A u32 is four base-256 limbs, least significant
\* first, so that 32-bit values stay inside the checker's integers; u16
\* and u8 are plain naturals.
\* ------------------------------------------------------------------------
Limbs == 1..4
Byte == 0..255

U32_MAX == [i \in Limbs |-> 255]
U32_ZERO == [i \in Limbs |-> 0]
U32_ONE == [i \in Limbs |-> IF i = 1 THEN 1 ELSE 0]

\* a small natural as a u32
U32Of(n) == [i \in Limbs |-> (n \div (256 ^ (i - 1))) % 256]

\* u32::from_be_bytes / Ipv4Addr -> u32: the first byte is the most significant
FromBeBytes(b) == [i \in Limbs |-> b[5 - i]]
\* u32::to_be_bytes, and the memory image of x.to_be()
ToBeBytes(x) == [i \in Limbs |-> x[5 - i]]

\* to_le_bytes with the two bytes in the wrong order
U16ToLeSwapped(x) == <<x \div 256, x % 256>>

\* u16::to_le_bytes / to_be_bytes and their inverses
U16ToLe(x) == <<x % 256, x \div 256>>
U16ToBe(x) == <<x \div 256, x % 256>>
U16FromLe(b) == b[1] + 256 * b[2]
U16FromBe(b) == 256 * b[1] + b[2]

RECURSIVE BorrowOut(_, _, _)
BorrowOut(a, b, i) ==
    LET bin == IF i = 1 THEN 0 ELSE BorrowOut(a, b, i - 1)
    IN IF a[i] - b[i] - bin < 0 THEN 1 ELSE 0
BorrowIn(a, b, i) == IF i = 1 THEN 0 ELSE BorrowOut(a, b, i - 1)

\* a - b on u32: the wrapped difference and whether it overflowed
U32Sub(a, b) ==
    [val |-> [i \in Limbs |-> (a[i] - b[i] - BorrowIn(a, b, i)) % 256],
     overflow |-> BorrowOut(a, b, 4) = 1]

RECURSIVE CarryOut(_, _, _)
CarryOut(a, b, i) ==
    LET cin == IF i = 1 THEN 0 ELSE CarryOut(a, b, i - 1)
    IN IF a[i] + b[i] + cin > 255 THEN 1 ELSE 0
CarryIn(a, b, i) == IF i = 1 THEN 0 ELSE CarryOut(a, b, i - 1)

\* a + b on u32: the wrapped sum and whether it overflowed
U32Add(a, b) ==
    [val |-> [i \in Limbs |-> (a[i] + b[i] + CarryIn(a, b, i)) % 256],
     overflow |-> CarryOut(a, b, 4) = 1]

\* 2_u32.pow(e): 2^e when it fits, else overflow with the wrapped value 0
U32Pow2(e) ==
    [val |-> [i \in Limbs |-> IF e < 32 /\ i = (e \div 8) + 1 THEN 2 ^ (e % 8) ELSE 0],
     overflow |-> e >= 32]

RECURSIVE ByteOr(_, _, _)
ByteOr(x, y, n) ==
    IF n = 0 THEN 0
    ELSE (IF x % 2 = 1 \/ y % 2 = 1 THEN 1 ELSE 0) + 2 * ByteOr(x \div 2, y \div 2, n - 1)

\* !a and a | b on u32
U32Not(a) == [i \in Limbs |-> 255 - a[i]]
U32Or(a, b) == [i \in Limbs |-> ByteOr(a[i], b[i], 8)]

\* ------------------------------------------------------------------------
\* State
\* ------------------------------------------------------------------------
VARIABLES
    os,               \* the backend the build selected: "linux" or "freebsd"
    overflow_checks,  \* TRUE in a build that panics on integer overflow (debug)
    fdtab,            \* the process's descriptors: fdtab[fd] = [kind, open, closes]
    iface,            \* the kernel's interface: [exists, flags, head, addr]
    tun,              \* the OsTun value: [state, fd, sock_fd, name, index, packet_info]
    refs,             \* strong count of the Arc<OsTun> inside TunDevice
    args,             \* the arguments of the last operation
    calls,            \* the OS requests the last operation made, in order
    result,           \* what the last operation returned: [op, status, err, val]
    wire,             \* the last frame write_packet handed to the device
    chan,             \* the ChannelTun pair: [made, queue, rx_buffer, written, got]
    ifreq             \* the IfFlagsReq an up() or down() in progress holds

vars == <<os, overflow_checks, fdtab, iface, tun, refs, args, calls, result, wire, chan,
          ifreq>>

NoFd == 0
NoArg == [t |-> "none"]
NoIface == [exists |-> FALSE, flags |-> {}, head |-> FALSE, addr |-> NoArg]
NoTun == [state |-> "none", fd |-> NoFd, sock_fd |-> NoFd, name |-> <<>>,
          index |-> 0, packet_info |-> FALSE]
NoWire == [valid |-> FALSE, bytes |-> <<>>, buf |-> <<>>, pi |-> NoArg, hdr |-> FALSE]

\* no up() or down() is between its two requests.  In a request that is
\* held, set tells up() from down() and flags are the flags get_ifflags
\* read; seen keeps the interface's flags as they were just before the last
\* write-back.
NoReq == [stage |-> "idle", set |-> FALSE, flags |-> {}, seen |-> {}]

Ret(op, status, err, val) == [op |-> op, status |-> status, err |-> err, val |-> val]

\* ------------------------------------------------------------------------
\* The operating system, as the handlers see it.  k is the kernel record
\* [fdtab, iface, calls]; every helper returns the record after the call.
\* ------------------------------------------------------------------------
Call(op, fd, open, ok, arg) ==
    [op |-> op, fd |-> fd, open |-> open, ok |-> ok, arg |-> arg]

Kernel == [fdtab |-> fdtab, iface |-> iface, calls |-> <<>>]

IsOpen(k, fd) == fd \in 1..Len(k.fdtab) /\ k.fdtab[fd].open

LastOk(k) == k.calls[Len(k.calls)].ok
LastFd(k) == k.calls[Len(k.calls)].fd

\* libc::open / libc::socket: on success a new descriptor; opening /dev/tun
\* (kind "tun") also makes the kernel clone a point-to-point interface
SysOpen(k, kind, ok) ==
    IF ok
    THEN [fdtab |-> Append(k.fdtab, [kind |-> kind, open |-> TRUE, closes |-> 0]),
          iface |-> IF kind = "tun"
                    THEN [exists |-> TRUE, flags |-> {"POINTOPOINT", "MULTICAST"},
                          head |-> FALSE, addr |-> NoArg]
                    ELSE k.iface,
          calls |-> Append(k.calls, Call("open", Len(k.fdtab) + 1, TRUE, TRUE,
                                         [t |-> kind]))]
    ELSE [k EXCEPT !.calls = Append(@, Call("open", -1, FALSE, FALSE, [t |-> kind]))]

\* libc::close: the descriptor is released whatever close returns (only a
\* descriptor that is not open gives EBADF); closing the clone descriptor of
\* a non-persistent Linux tun removes its interface
SysClose(k, fd, ok) ==
    LET was == IsOpen(k, fd)
    IN [fdtab |-> IF fd \in 1..Len(k.fdtab)
                  THEN [k.fdtab EXCEPT ![fd].open = FALSE, ![fd].closes = @ + 1]
                  ELSE k.fdtab,
        iface |-> IF was /\ k.fdtab[fd].kind = "clone" THEN NoIface ELSE k.iface,
        calls |-> Append(k.calls, Call("close", fd, was, was /\ ok, NoArg))]

\* what a successful request does to the interface
IfaceAfter(i, req, arg) ==
    CASE req = "TUNSIFMODE" ->
            [i EXCEPT !.flags = (@ \ {"POINTOPOINT"}) \cup {"BROADCAST", "MULTICAST"}]
      [] req = "TUNSIFHEAD" -> [i EXCEPT !.head = TRUE]
      [] req = "TUNSETIFF" ->
            [exists |-> TRUE, flags |-> {"POINTOPOINT", "MULTICAST", "NOARP"},
             head |-> "NO_PI" \notin arg.flags, addr |-> NoArg]
      [] req = "SIOCAIFADDR" -> [i EXCEPT !.addr = arg]
      [] req = "SIOCSIFFLAGS" -> [i EXCEPT !.flags = arg.flags]
      [] req = "SIOCIFDESTROY" -> NoIface
      [] req = "RTM_NEWADDR" -> [i EXCEPT !.addr = arg]
      [] req = "RTM_NEWLINK" -> [i EXCEPT !.flags = (@ \ arg.change) \cup arg.flags]
      [] req = "RTM_DELLINK" -> NoIface
      [] OTHER -> i

\* requests that name an interface, which must exist
IfaceReqs == {"SIOCAIFADDR", "SIOCGIFFLAGS", "SIOCSIFFLAGS", "SIOCIFDESTROY"}

\* libc::ioctl, fstat: a request on a descriptor; it fails on a
\* descriptor that is not open, and otherwise as the environment decides
SysIoctl(k, fd, req, arg, ok) ==
    LET was == IsOpen(k, fd)
        good == was /\ ok /\ (req \in IfaceReqs => k.iface.exists)
    IN [fdtab |-> k.fdtab,
        iface |-> IF good THEN IfaceAfter(k.iface, req, arg) ELSE k.iface,
        calls |-> Append(k.calls, Call(req, fd, was, good, arg))]

\* a request that names no descriptor of the handle: devname_r, if_nametoindex,
\* NlSocketHandle::connect, NlSocketHandle::send.  `ok` is what the caller
\* sees; `accepted` is whether the kernel applied a sent message, which the
\* sender never reads
SysOther(k, req, arg, ok, accepted) ==
    [fdtab |-> k.fdtab,
     iface |-> IF ok /\ accepted /\ k.iface.exists
               THEN IfaceAfter(k.iface, req, arg) ELSE k.iface,
     calls |-> Append(k.calls, Call(req, NoFd, FALSE, ok, arg))]

\* ------------------------------------------------------------------------
\* Inputs
\* ------------------------------------------------------------------------
\* TunConfig.ip: None, or Some((IpAddr, u8))
NoIp == [kind |-> "none", addr |-> <<>>, prefix |-> 0]
V4(o, p) == [kind |-> "v4", addr |-> o, prefix |-> p]
V6(o, p) == [kind |-> "v6", addr |-> o, prefix |-> p]

Addr4s == {<<192, 168, 70, 100>>, <<10, 0, 0, 1>>}
Addr6 == [i \in 1..16 |-> IF i = 1 THEN 254 ELSE IF i = 2 THEN 128 ELSE IF i = 16 THEN 1 ELSE 0]
Prefixes == 0..MaxPrefix

Ips == {NoIp} \cup {V4(o, p) : o \in Addr4s, p \in Prefixes}
              \cup {V6(Addr6, p) : p \in {64}}

\* TunConfig.name: None, or Some(String) given as its bytes
NoName == [some |-> FALSE, s |-> <<>>]
SomeName(s) == [some |-> TRUE, s |-> s]
NameOfLen(n) == [i \in 1..n |-> 97]
Names == {NoName, SomeName(<<116, 117, 110, 48>>), SomeName(<<116, 0, 110, 0>>),
          SomeName(NameOfLen(IFNAMSIZ - 1)), SomeName(NameOfLen(IFNAMSIZ))}

TunConfig(ip, name, pi) == [ip |-> ip, name |-> name, packet_info |-> pi]

\* the outcome of every OS call a handler can make
Env == [open_ok : BOOLEAN, setup_ok : BOOLEAN, stat_ok : BOOLEAN, name_ok : BOOLEAN,
        sock_ok : BOOLEAN, req_ok : BOOLEAN, req2_ok : BOOLEAN, accepted : BOOLEAN,
        close_fd_ok : BOOLEAN, destroy_ok : BOOLEAN, close_sock_ok : BOOLEAN]

\* what a handler hands back: the kernel after it, the handle after it, and
\* its return value
Out(k, t, ret) == [k |-> k, tun |-> t, ret |-> ret]

\* ------------------------------------------------------------------------
\* src/src/freebsd.rs
\* ------------------------------------------------------------------------
\* the match on the prefix length in configure: the mask, whether the
\* prefix was rejected, and whether the arithmetic overflowed on the way
Mask(x) ==
    IF x = 32 THEN [invalid |-> FALSE, overflow |-> FALSE, mask |-> U32_MAX]
    ELSE IF x < 32
    THEN LET p == U32Pow2(32 - x)
             d == U32Sub(U32_MAX, p.val)
             r == U32Add(d.val, U32_ONE)
         IN [invalid |-> FALSE,
             overflow |-> p.overflow \/ d.overflow \/ r.overflow,
             mask |-> r.val]
    ELSE [invalid |-> TRUE, overflow |-> FALSE, mask |-> U32_ZERO]

\* the broadcast address without the complement of the mask
BroadcastNoNot(mask, ip) == U32Or(mask, ip)

\* let broadcast = !mask | ip
Broadcast(mask, ip) == U32Or(U32Not(mask), ip)

\* the IfAliasReq handed to SIOCAIFADDR; each sin_addr is the byte image
\* of value.to_be()
IfAliasReq(name, ip, broadcast, mask) ==
    [t |-> "IfAliasReq", ifra_name |-> name,
     ifra_addr |-> ToBeBytes(ip),
     ifra_broadaddr |-> ToBeBytes(broadcast),
     ifra_mask |-> ToBeBytes(mask)]

IfFlagsReq(name, flags) == [t |-> "IfFlagsReq", ifr_name |-> name, flags |-> flags]

\* the second half of configure: if cfg.packet_info { ioctl(fd, TUNSIFHEAD, &1) }
FreebsdSetHead(t, cfg, k, e) ==
    IF cfg.packet_info
    THEN SysIoctl(k, t.fd, "TUNSIFHEAD", [t |-> "int", v |-> 1], e.req2_ok)
    ELSE k

\* the IpAddr::V4 arm with the address request made on the data descriptor
FreebsdConfigureV4OnDataFd(t, cfg, k, e) ==
    LET ip == FromBeBytes(cfg.ip.addr)
        m == Mask(cfg.ip.prefix)
    IN IF m.invalid
       THEN Out(k, t, Ret("configure", "err", "Ipv4InvalidCidr", [cidr |-> cfg.ip.prefix]))
       ELSE IF m.overflow /\ overflow_checks
       THEN Out(k, t, Ret("configure", "panic", "overflow", NoArg))
       ELSE LET req == IfAliasReq(t.name, ip, Broadcast(m.mask, ip), m.mask)
                k1 == SysIoctl(k, t.fd, "SIOCAIFADDR", req, e.req_ok)
            IN Out(FreebsdSetHead(t, cfg, k1, e), t, Ret("configure", "ok", "", NoArg))

\* the IpAddr::V4 arm of configure, and what follows it
FreebsdConfigureV4(t, cfg, k, e) ==
    LET ip == FromBeBytes(cfg.ip.addr)
        m == Mask(cfg.ip.prefix)
    IN IF m.invalid
       THEN Out(k, t, Ret("configure", "err", "Ipv4InvalidCidr", [cidr |-> cfg.ip.prefix]))
       ELSE IF m.overflow /\ overflow_checks
       THEN Out(k, t, Ret("configure", "panic", "overflow", NoArg))
       ELSE LET req == IfAliasReq(t.name, ip, Broadcast(m.mask, ip), m.mask)
                k1 == SysIoctl(k, t.sock_fd, "SIOCAIFADDR", req, e.req_ok)
            IN Out(FreebsdSetHead(t, cfg, k1, e), t, Ret("configure", "ok", "", NoArg))

\* configure with the IpAddr::V6 arm doing nothing
FreebsdConfigureV6Ignored(t, cfg, k, e) ==
    IF cfg.ip.kind \in {"none", "v6"}
    THEN Out(FreebsdSetHead(t, cfg, k, e), t, Ret("configure", "ok", "", NoArg))
    ELSE FreebsdConfigureV4(t, cfg, k, e)

\* OsTun::configure
FreebsdConfigure(t, cfg, k, e) ==
    IF cfg.ip.kind = "none"
    THEN Out(FreebsdSetHead(t, cfg, k, e), t, Ret("configure", "ok", "", NoArg))
    ELSE IF cfg.ip.kind = "v6"
    THEN Out(k, t, Ret("configure", "panic", "unimplemented", NoArg))
    ELSE FreebsdConfigureV4(t, cfg, k, e)

\* Drop with the control descriptor closed before the destroy request
FreebsdDropCloseBeforeDestroy(t, k, e) ==
    LET k1 == SysClose(k, t.fd, e.close_fd_ok)
        k2 == SysClose(k1, t.sock_fd, e.close_sock_ok)
    IN SysIoctl(k2, t.sock_fd, "SIOCIFDESTROY", IfFlagsReq(t.name, {}), e.destroy_ok)

\* Drop that returns at the first step that fails
FreebsdDropShortCircuit(t, k, e) ==
    LET k1 == SysClose(k, t.fd, e.close_fd_ok)
        k2 == SysIoctl(k1, t.sock_fd, "SIOCIFDESTROY", IfFlagsReq(t.name, {}),
                       e.destroy_ok)
    IN IF ~LastOk(k1) THEN k1
       ELSE IF ~LastOk(k2) THEN k2
       ELSE SysClose(k2, t.sock_fd, e.close_sock_ok)

\* impl Drop for OsTun
FreebsdDrop(t, k, e) ==
    LET k1 == SysClose(k, t.fd, e.close_fd_ok)
        k2 == SysIoctl(k1, t.sock_fd, "SIOCIFDESTROY", IfFlagsReq(t.name, {}),
                       e.destroy_ok)
    IN SysClose(k2, t.sock_fd, e.close_sock_ok)

\* OsTun::create.  When configure returns an error or panics, the OsTun
\* built just before goes out of scope and its Drop runs (a panic unwinds).
FreebsdCreate(cfg, k, e) ==
    LET k1 == SysOpen(k, "tun", e.open_ok)
        fd == LastFd(k1)
        k2 == SysIoctl(k1, fd, "TUNSIFMODE", [t |-> "int", v |-> {"BROADCAST", "MULTICAST"}],
                       e.setup_ok)
        k3 == SysIoctl(k2, fd, "fstat", NoArg, e.stat_ok)
        k3n == SysOther(k3, "devname_r", NoArg, e.name_ok, FALSE)
        k4 == SysOpen(k3n, "sock", e.sock_ok)
        t == [state |-> "live", fd |-> fd, sock_fd |-> LastFd(k4),
              name |-> <<116, 117, 110, 48>>, index |-> 0,
              packet_info |-> cfg.packet_info]
        c == FreebsdConfigure(t, cfg, k4, e)
    IN IF ~e.open_ok THEN Out(k1, NoTun, Ret("create", "err", "IO", NoArg))
       ELSE IF ~e.setup_ok THEN Out(k2, NoTun, Ret("create", "err", "Generic", NoArg))
       ELSE IF ~e.stat_ok THEN Out(k3, NoTun, Ret("create", "err", "IO", NoArg))
       ELSE IF ~e.name_ok THEN Out(k3n, NoTun, Ret("create", "err", "IO", NoArg))
       ELSE IF ~e.sock_ok THEN Out(k4, NoTun, Ret("create", "err", "DeviceNotFound", NoArg))
       ELSE IF c.ret.status = "ok" THEN Out(c.k, c.tun, Ret("create", "ok", "", NoArg))
       ELSE Out(FreebsdDrop(c.tun, c.k, e), [c.tun EXCEPT !.state = "dropped"],
                Ret("create", c.ret.status, c.ret.err, c.ret.val))

\* up() and down() that write the up bit alone, without the flags read
FreebsdSetUpBitOnly(t, set, k, e) ==
    LET k1 == SysIoctl(k, t.sock_fd, "SIOCGIFFLAGS", IfFlagsReq(t.name, {}), e.req_ok)
        new == IF set THEN {"UP"} ELSE {}
        k2 == SysIoctl(k1, t.sock_fd, "SIOCSIFFLAGS", IfFlagsReq(t.name, new), e.req2_ok)
        op == IF set THEN "up" ELSE "down"
    IN IF ~LastOk(k1) THEN Out(k1, t, Ret(op, "err", "Generic", NoArg))
       ELSE IF ~LastOk(k2) THEN Out(k2, t, Ret(op, "err", "Generic", NoArg))
       ELSE Out(k2, t, Ret(op, "ok", "", NoArg))

\* get_ifflags: the request, whether it succeeded, and the flags it read
FreebsdGetIfflags(t, k, e) ==
    LET k1 == SysIoctl(k, t.sock_fd, "SIOCGIFFLAGS", IfFlagsReq(t.name, {}), e.req_ok)
    IN [k |-> k1, ok |-> LastOk(k1), flags |-> k.iface.flags]

\* a write-back that takes the interface's flags as they are when it writes
FreebsdWriteBackFresh(t, set, got, k, e) ==
    LET now == k.iface.flags
        new == IF set THEN now \cup {"UP"} ELSE now \ {"UP"}
        k2 == SysIoctl(k, t.sock_fd, "SIOCSIFFLAGS", IfFlagsReq(t.name, new), e.req2_ok)
        op == IF set THEN "up" ELSE "down"
    IN IF ~LastOk(k2) THEN Out(k2, t, Ret(op, "err", "Generic", NoArg))
       ELSE Out(k2, t, Ret(op, "ok", "", NoArg))

\* the rest of up() (set = TRUE) or down() once the flags `got` are read:
\* the up bit is set or cleared in them and they are written back
FreebsdWriteBack(t, set, got, k, e) ==
    LET new == IF set THEN got \cup {"UP"} ELSE got \ {"UP"}
        k2 == SysIoctl(k, t.sock_fd, "SIOCSIFFLAGS", IfFlagsReq(t.name, new), e.req2_ok)
        op == IF set THEN "up" ELSE "down"
    IN IF ~LastOk(k2) THEN Out(k2, t, Ret(op, "err", "Generic", NoArg))
       ELSE Out(k2, t, Ret(op, "ok", "", NoArg))

\* up() (set = TRUE) or down(): get_ifflags, the flag update, the write-back
FreebsdSetUp(t, set, k, e) ==
    LET g == FreebsdGetIfflags(t, k, e)
        op == IF set THEN "up" ELSE "down"
    IN IF ~g.ok THEN Out(g.k, t, Ret(op, "err", "Generic", NoArg))
       ELSE FreebsdWriteBack(t, set, g.flags, g.k, e)

\* ------------------------------------------------------------------------
\* src/src/linux.rs
\* ------------------------------------------------------------------------
\* CString::new: the position of the first NUL byte, or -1
FirstNul(s) ==
    IF \E i \in 1..Len(s) : s[i] = 0
    THEN (CHOOSE i \in 1..Len(s) : s[i] = 0 /\ \A j \in 1..(i - 1) : s[j] # 0) - 1
    ELSE -1

\* the Ifaddrmsg of assign_ip inside its Nlmsghdr
Ifaddrmsg(t, ip, mask) ==
    [t |-> "Ifaddrmsg", nl_type |-> "Newaddr", nl_flags |-> {"Request", "Create", "Excl"},
     ifa_family |-> IF ip.kind = "v4" THEN "Inet" ELSE "Inet6",
     ifa_prefixlen |-> mask,
     ifa_flags |-> {"Permanent"},
     ifa_scope |-> "Universe",
     ifa_index |-> t.index,
     rtattrs |-> <<[rta_type |-> "Address", payload |-> ip.addr],
                   [rta_type |-> "Local", payload |-> ip.addr]>>]

\* the kernel takes an address only with a prefix its family allows
PrefixFits(msg) ==
    msg.ifa_prefixlen <= (IF msg.ifa_family = "Inet" THEN 32 ELSE 128)

\* assign_ip that waits for the kernel's answer and returns its refusal
LinuxAssignIpAcked(t, ip, mask, k, e) ==
    LET k1 == SysOther(k, "nl_connect", NoArg, e.sock_ok, FALSE)
        msg == Ifaddrmsg(t, ip, mask)
        took == e.accepted /\ PrefixFits(msg)
        k2 == SysOther(k1, "RTM_NEWADDR", msg, e.req_ok, took)
        k3 == SysOther(k2, "nl_recv", NoArg, took, FALSE)
    IN IF ~e.sock_ok THEN Out(k1, t, Ret("configure", "err", "Generic", NoArg))
       ELSE IF ~e.req_ok THEN Out(k2, t, Ret("configure", "err", "Generic", NoArg))
       ELSE IF ~took THEN Out(k3, t, Ret("configure", "err", "Generic", NoArg))
       ELSE Out(k3, t, Ret("configure", "ok", "", NoArg))

\* OsTun::assign_ip.  The netlink socket lives inside NlSocketHandle, which
\* closes it when assign_ip returns; it is no descriptor of the handle and
\* is not entered in fdtab.
LinuxAssignIp(t, ip, mask, k, e) ==
    LET k1 == SysOther(k, "nl_connect", NoArg, e.sock_ok, FALSE)
        msg == Ifaddrmsg(t, ip, mask)
        k2 == SysOther(k1, "RTM_NEWADDR", msg, e.req_ok, e.accepted /\ PrefixFits(msg))
    IN IF ~e.sock_ok THEN Out(k1, t, Ret("configure", "err", "Generic", NoArg))
       ELSE IF ~e.req_ok THEN Out(k2, t, Ret("configure", "err", "Generic", NoArg))
       ELSE Out(k2, t, Ret("configure", "ok", "", NoArg))

\* configure that refuses an address when the interface already has one
LinuxConfigureExclRefused(t, cfg, k, e) ==
    IF cfg.ip.kind # "none" /\ k.iface.addr # NoArg
    THEN Out(k, t, Ret("configure", "err", "Generic", NoArg))
    ELSE IF cfg.ip.kind # "none"
    THEN LinuxAssignIp(t, cfg.ip, cfg.ip.prefix, k, e)
    ELSE Out(k, t, Ret("configure", "ok", "", NoArg))

\* OsTun::configure
LinuxConfigure(t, cfg, k, e) ==
    IF cfg.ip.kind # "none"
    THEN LinuxAssignIp(t, cfg.ip, cfg.ip.prefix, k, e)
    ELSE Out(k, t, Ret("configure", "ok", "", NoArg))

\* OsTun has no Drop on this backend: dropping it releases the CString and
\* nothing else
LinuxDrop(t, k, e) == k

\* if_nametoindex: the kernel numbers interfaces as it likes; the model
\* takes the number of descriptors opened so far, positive and new for
\* each interface
IfIndex(k) == Len(k.fdtab)

\* create that opens the clone device before it looks at the name
LinuxCreateOpenFirst(cfg, k, e) ==
    LET s == cfg.name.s
        k1 == SysOpen(k, "clone", e.open_ok)
        fd == LastFd(k1)
        flags == {"TUN"} \cup (IF cfg.packet_info THEN {} ELSE {"NO_PI"})
        k2 == SysIoctl(k1, fd, "TUNSETIFF", [t |-> "IfReq", name |-> s, flags |-> flags],
                       e.setup_ok)
        k3 == SysOther(k2, "if_nametoindex", [t |-> "name", name |-> s], e.name_ok, FALSE)
        t == [state |-> "live", fd |-> fd, sock_fd |-> NoFd, name |-> s,
              index |-> IfIndex(k2), packet_info |-> cfg.packet_info]
        c == LinuxConfigure(t, cfg, k3, e)
    IN IF ~e.open_ok
       THEN Out(k1, NoTun, Ret("create", "err", "DeviceOpenFailed", NoArg))
       ELSE IF ~cfg.name.some
       THEN Out(k1, NoTun, Ret("create", "err", "DeviceNameRequired", NoArg))
       ELSE IF FirstNul(s) >= 0
       THEN Out(k1, NoTun, Ret("create", "err", "DeviceNameContainsNuls",
                               [pos |-> FirstNul(s)]))
       ELSE IF Len(s) > IFNAMSIZ - 1
       THEN Out(k1, NoTun, Ret("create", "err", "DeviceNameTooLong",
                               [len |-> Len(s), max |-> IFNAMSIZ]))
       ELSE IF ~e.setup_ok
       THEN Out(k2, NoTun, Ret("create", "err", "DeviceCreateFailed", NoArg))
       ELSE IF ~e.name_ok
       THEN Out(k3, NoTun, Ret("create", "err", "DeviceNotFound", NoArg))
       ELSE IF c.ret.status = "ok" THEN Out(c.k, c.tun, Ret("create", "ok", "", NoArg))
       ELSE Out(LinuxDrop(c.tun, c.k, e), [c.tun EXCEPT !.state = "dropped"],
                Ret("create", c.ret.status, c.ret.err, c.ret.val))

\* OsTun::create
LinuxCreate(cfg, k, e) ==
    LET s == cfg.name.s
        k1 == SysOpen(k, "clone", e.open_ok)
        fd == LastFd(k1)
        flags == {"TUN"} \cup (IF cfg.packet_info THEN {} ELSE {"NO_PI"})
        k2 == SysIoctl(k1, fd, "TUNSETIFF", [t |-> "IfReq", name |-> s, flags |-> flags],
                       e.setup_ok)
        k3 == SysOther(k2, "if_nametoindex", [t |-> "name", name |-> s], e.name_ok, FALSE)
        t == [state |-> "live", fd |-> fd, sock_fd |-> NoFd, name |-> s,
              index |-> IfIndex(k2), packet_info |-> cfg.packet_info]
        c == LinuxConfigure(t, cfg, k3, e)
    IN IF ~cfg.name.some
       THEN Out(k, NoTun, Ret("create", "err", "DeviceNameRequired", NoArg))
       ELSE IF FirstNul(s) >= 0
       THEN Out(k, NoTun, Ret("create", "err", "DeviceNameContainsNuls",
                              [pos |-> FirstNul(s)]))
       ELSE IF Len(s) > IFNAMSIZ - 1
       THEN Out(k, NoTun, Ret("create", "err", "DeviceNameTooLong",
                              [len |-> Len(s), max |-> IFNAMSIZ]))
       ELSE IF ~e.open_ok
       THEN Out(k1, NoTun, Ret("create", "err", "DeviceOpenFailed", NoArg))
       ELSE IF ~e.setup_ok
       THEN Out(k2, NoTun, Ret("create", "err", "DeviceCreateFailed", NoArg))
       ELSE IF ~e.name_ok
       THEN Out(k3, NoTun, Ret("create", "err", "DeviceNotFound", NoArg))
       ELSE IF c.ret.status = "ok" THEN Out(c.k, c.tun, Ret("create", "ok", "", NoArg))
       ELSE Out(LinuxDrop(c.tun, c.k, e), [c.tun EXCEPT !.state = "dropped"],
                Ret("create", c.ret.status, c.ret.err, c.ret.val))

\* up() (set = TRUE) sends a Newlink that sets IFF_UP; down() sends a Dellink
\* with no flag set
LinuxSetUp(t, set, k, e) ==
    LET k1 == SysOther(k, "nl_connect", NoArg, e.sock_ok, FALSE)
        msg == [t |-> "Ifinfomsg", nl_type |-> IF set THEN "Newlink" ELSE "Dellink",
                nl_flags |-> {"Request"}, ifi_index |-> t.index,
                flags |-> IF set THEN {"UP"} ELSE {},
                change |-> IF set THEN {"UP"} ELSE {}]
        k2 == SysOther(k1, IF set THEN "RTM_NEWLINK" ELSE "RTM_DELLINK", msg,
                       e.req_ok, e.accepted)
        op == IF set THEN "up" ELSE "down"
    IN IF ~e.sock_ok THEN Out(k1, t, Ret(op, "err", "Generic", NoArg))
       ELSE IF ~e.req_ok THEN Out(k2, t, Ret(op, "err", "Generic", NoArg))
       ELSE Out(k2, t, Ret(op, "ok", "", NoArg))

\* ------------------------------------------------------------------------
\* Packets: readv / writev over the header and the caller's buffer
\* ------------------------------------------------------------------------
Min(a, b) == IF a < b THEN a ELSE b
Zeros(n) == [i \in 1..n |-> 0]

\* readv that is always given the header segment
ReadvHeaderAlways(frame, withHdr, buflen) ==
    LET n == Min(Len(frame), HdrLen + buflen)
        inHdr == Min(n, HdrLen)
    IN [n |-> n,
        hdr |-> [i \in 1..HdrLen |-> IF i <= inHdr THEN frame[i] ELSE 0],
        buf |-> [i \in 1..(n - inHdr) |-> frame[inHdr + i]]]

\* readv on the segments iovs[idx..]: the frame fills the header segment
\* first when it is passed, then the buffer; what does not fit is cut off
Readv(frame, withHdr, buflen) ==
    LET h == IF withHdr THEN HdrLen ELSE 0
        n == Min(Len(frame), h + buflen)
        inHdr == Min(n, h)
    IN [n |-> n,
        hdr |-> [i \in 1..HdrLen |-> IF i <= inHdr THEN frame[i] ELSE 0],
        buf |-> [i \in 1..(n - inHdr) |-> frame[inHdr + i]]]

\* writev that is always given every segment
GatherAll(iovs, idx) ==
    IF Len(iovs) = 2 THEN iovs[1] \o iovs[2] ELSE iovs[1] \o iovs[2] \o iovs[3]

\* writev on the segments iovs[idx..]: the bytes handed to the device
RECURSIVE Gather(_, _)
Gather(iovs, idx) ==
    IF idx >= Len(iovs) THEN <<>> ELSE iovs[idx + 1] \o Gather(iovs, idx + 1)

ReadVal(n, pi, buf, total) == [n |-> n, pi |-> pi, buf |-> buf, total |-> total]

\* linux.rs read_packet; a negative byte count stands for the usize
\* 2^64 + count that the cast (n - 4) as usize produces
LinuxReadPacket(t, buflen, frame, k, e) ==
    LET idx == IF t.packet_info THEN 0 ELSE 1
        k1 == SysIoctl(k, t.fd, "readv", [t |-> "iov", idx |-> idx, len |-> buflen],
                       e.req_ok)
        r == Readv(frame, idx = 0, buflen)
        flags == U16FromLe(<<r.hdr[1], r.hdr[2]>>)
        af == U16FromBe(<<r.hdr[3], r.hdr[4]>>)
    IN IF ~LastOk(k1) THEN Out(k1, t, Ret("read_packet", "err", "IO", NoArg))
       ELSE IF t.packet_info
       THEN Out(k1, t, Ret("read_packet", "ok", "",
                           ReadVal(r.n - 4, <<flags, af>>, r.buf, r.n)))
       ELSE Out(k1, t, Ret("read_packet", "ok", "", ReadVal(r.n, <<0, 0>>, r.buf, r.n)))

\* freebsd.rs read_packet
FreebsdReadPacket(t, buflen, frame, k, e) ==
    LET idx == IF t.packet_info THEN 0 ELSE 1
        k1 == SysIoctl(k, t.fd, "readv", [t |-> "iov", idx |-> idx, len |-> buflen],
                       e.req_ok)
        r == Readv(frame, idx = 0, buflen)
    IN IF ~LastOk(k1) THEN Out(k1, t, Ret("read_packet", "err", "IO", NoArg))
       ELSE Out(k1, t, Ret("read_packet", "ok", "",
                           ReadVal(r.n, FromBeBytes(r.hdr), r.buf, r.n)))

\* Option<PktInfo> of the linux write_packet
NoPi == [some |-> FALSE, flags |-> 0, af |-> 0]
SomePi(flags, af) == [some |-> TRUE, flags |-> flags, af |-> af]

\* linux.rs write_packet: the bytes written and the value returned
LinuxWritePacket(t, buf, pi, k, e) ==
    LET flags == IF pi.some THEN U16ToLe(pi.flags) ELSE <<0, 0>>
        af == IF pi.some THEN U16ToBe(pi.af) ELSE <<0, 2>>
        idx == IF t.packet_info THEN 0 ELSE 2
        bytes == Gather(<<flags, af, buf>>, idx)
        k1 == SysIoctl(k, t.fd, "writev", [t |-> "iov", idx |-> idx, bytes |-> bytes],
                       e.req_ok)
    IN IF ~LastOk(k1) THEN Out(k1, t, Ret("write_packet", "err", "IO", NoArg))
       ELSE Out(k1, t, Ret("write_packet", "ok", "", [n |-> Len(bytes), bytes |-> bytes]))

\* freebsd.rs write_packet
FreebsdWritePacket(t, buf, af, k, e) ==
    LET hdr == ToBeBytes(af)
        idx == IF t.packet_info THEN 0 ELSE 1
        bytes == Gather(<<hdr, buf>>, idx)
        k1 == SysIoctl(k, t.fd, "writev", [t |-> "iov", idx |-> idx, bytes |-> bytes],
                       e.req_ok)
    IN IF ~LastOk(k1) THEN Out(k1, t, Ret("write_packet", "err", "IO", NoArg))
       ELSE Out(k1, t, Ret("write_packet", "ok", "", [n |-> Len(bytes), bytes |-> bytes]))

\* ------------------------------------------------------------------------
\* src/src/channel.rs: two ChannelTun handles joined by two unbounded
\* channels.  Side 1 is chan_a, side 2 is chan_b; queue[s] holds the
\* messages side s has sent and its peer has not yet received.  written[s]
\* and got[s] are all the bytes side s has written and has been handed by
\* read, kept to compare the two.
\* ------------------------------------------------------------------------
Sides == {1, 2}
Peer(s) == 3 - s

NoChan == [made |-> FALSE, queue |-> <<<<>>, <<>>>>, rx_buffer |-> <<<<>>, <<>>>>,
           written |-> <<<<>>, <<>>>>, got |-> <<<<>>, <<>>>>]

\* ChannelTun::create
ChannelCreate == [NoChan EXCEPT !.made = TRUE]

\* read that throws away what does not fit the caller's buffer
ChannelReadNoBuffer(c, s, buflen) ==
    IF c.rx_buffer[s] # <<>>
    THEN LET amt == Min(Len(c.rx_buffer[s]), buflen)
             data == SubSeq(c.rx_buffer[s], 1, amt)
         IN [chan |-> [c EXCEPT !.rx_buffer[s] = <<>>,
                                !.got[s] = @ \o data],
             n |-> amt, data |-> data]
    ELSE LET msg == Head(c.queue[Peer(s)])
             to_copy == Min(Len(msg), buflen)
             data == SubSeq(msg, 1, to_copy)
         IN [chan |-> [c EXCEPT !.queue[Peer(s)] = Tail(@),
                                !.got[s] = @ \o data],
             n |-> to_copy, data |-> data]

\* impl Read for ChannelTun: buffered bytes first, else the next message of
\* the peer; what does not fit buf is kept in rx_buffer.  With nothing
\* buffered the caller needs a message to be waiting (recv blocks).
ChannelRead(c, s, buflen) ==
    IF c.rx_buffer[s] # <<>>
    THEN LET amt == Min(Len(c.rx_buffer[s]), buflen)
             data == SubSeq(c.rx_buffer[s], 1, amt)
         IN [chan |-> [c EXCEPT !.rx_buffer[s] = SubSeq(@, amt + 1, Len(@)),
                                !.got[s] = @ \o data],
             n |-> amt, data |-> data]
    ELSE LET msg == Head(c.queue[Peer(s)])
             to_copy == Min(Len(msg), buflen)
             data == SubSeq(msg, 1, to_copy)
             rest == SubSeq(msg, to_copy + 1, Len(msg))
         IN [chan |-> [c EXCEPT !.queue[Peer(s)] = Tail(@),
                                !.rx_buffer[s] = @ \o rest,
                                !.got[s] = @ \o data],
             n |-> to_copy, data |-> data]

\* impl Write for ChannelTun: the bytes go to the peer as one message
ChannelWrite(c, s, buf) ==
    [chan |-> [c EXCEPT !.queue[s] = Append(@, buf), !.written[s] = @ \o buf],
     n |-> Len(buf)]

\* ------------------------------------------------------------------------
\* Input sets of the actions
\* ------------------------------------------------------------------------
AllOk == [open_ok |-> TRUE, setup_ok |-> TRUE, stat_ok |-> TRUE, name_ok |-> TRUE,
          sock_ok |-> TRUE, req_ok |-> TRUE, req2_ok |-> TRUE, accepted |-> TRUE,
          close_fd_ok |-> TRUE, destroy_ok |-> TRUE, close_sock_ok |-> TRUE]

\* create stops at its first failing step, so the outcomes of later steps
\* are left TRUE
CreateEnvs ==
    {e \in Env :
        /\ ~e.open_ok => e.setup_ok
        /\ ~(e.open_ok /\ e.setup_ok) => e.stat_ok
        /\ ~(e.open_ok /\ e.setup_ok /\ e.stat_ok) => e.name_ok
        /\ ~(e.open_ok /\ e.setup_ok /\ e.stat_ok /\ e.name_ok) =>
               /\ e.sock_ok /\ e.req_ok /\ e.req2_ok /\ e.accepted
               /\ e.close_fd_ok /\ e.destroy_ok /\ e.close_sock_ok}

\* the calls of configure, up, down, read_packet and write_packet
LinuxOpEnvs ==
    {e \in {[AllOk EXCEPT !.sock_ok = a, !.req_ok = b, !.accepted = c] :
                a \in BOOLEAN, b \in BOOLEAN, c \in BOOLEAN} :
        /\ ~e.sock_ok => e.req_ok
        /\ ~e.req_ok => e.accepted}
FreebsdOpEnvs ==
    {[AllOk EXCEPT !.req_ok = a, !.req2_ok = b] : a \in BOOLEAN, b \in BOOLEAN}
OpEnvs == IF os = "linux" THEN LinuxOpEnvs ELSE FreebsdOpEnvs

\* the calls of Drop
DropEnvs ==
    {[AllOk EXCEPT !.close_fd_ok = a, !.destroy_ok = b, !.close_sock_ok = c] :
        a \in BOOLEAN, b \in BOOLEAN, c \in BOOLEAN}

\* the inputs tried where the device's whole life is followed
Payload(n) == [i \in 1..n |-> 160 + i]
LifeIps == {NoIp, V6(Addr6, 64)}
               \cup {V4(<<192, 168, 70, 100>>, p) : p \in {0, 24, MaxPrefix}}
LifePayloads == {Payload(MaxPayload)}
LifeFrames == {<<1, 0, 8, 0>> \o Payload(MaxPayload)}

Payloads == {Payload(n) : n \in 0..MaxPayload}
Hdrs == {<<1, 0, 8, 0>>, <<0, 0, 0, 2>>}
\* what the device can deliver to one read: a bare packet, a header and a
\* packet, or less than a header
Frames == Payloads \cup {h \o b : h \in Hdrs, b \in Payloads}
                   \cup {SubSeq(h, 1, m) : h \in Hdrs, m \in 0..(HdrLen - 1)}

LinuxPis == {NoPi} \cup {SomePi(f, a) : f \in {1, 4660}, a \in {2048, 34525}}
FreebsdAfs == {U32Of(2), U32Of(28), U32Of(16909060)}

\* ------------------------------------------------------------------------
\* Actions
\* ------------------------------------------------------------------------
Apply(out, a) ==
    /\ args' = a
    /\ fdtab' = out.k.fdtab
    /\ iface' = out.k.iface
    /\ calls' = out.k.calls
    /\ tun' = out.tun
    /\ result' = out.ret

\* TunDevice::create(cfg): OsTun::create, and on success the Arc around it.
\* A behaviour follows one device from its creation to its end.
Create(ips) ==
    /\ tun.state = "none"
    /\ result.op = "init"
    /\ \E ip \in ips, name \in (IF os = "linux" THEN Names ELSE {NoName}),
          pi \in BOOLEAN, e \in CreateEnvs :
          LET cfg == TunConfig(ip, name, pi)
              out == IF os = "linux" THEN LinuxCreate(cfg, Kernel, e)
                     ELSE FreebsdCreate(cfg, Kernel, e)
          IN /\ Apply(out, cfg)
             /\ refs' = IF out.ret.status = "ok" THEN 1 ELSE 0
    /\ wire' = NoWire
    /\ UNCHANGED <<os, overflow_checks, chan, ifreq>>

\* TunDevice::clone: one more owner of the same OsTun
Clone ==
    /\ tun.state = "live"
    /\ refs < MaxRefs
    /\ refs' = refs + 1
    /\ args' = NoArg
    /\ calls' = <<>>
    /\ result' = Ret("clone", "ok", "", NoArg)
    /\ UNCHANGED <<os, overflow_checks, fdtab, iface, tun, wire, chan, ifreq>>

\* an owner goes out of scope; the last one drops the OsTun
DropRef ==
    /\ tun.state = "live"
    /\ IF refs > 1
       THEN /\ refs' = refs - 1
            /\ args' = NoArg
            /\ calls' = <<>>
            /\ result' = Ret("drop", "ok", "", [last |-> FALSE])
            /\ UNCHANGED <<fdtab, iface, tun>>
       ELSE \E e \in DropEnvs :
            LET k == IF os = "linux" THEN LinuxDrop(tun, Kernel, e)
                     ELSE FreebsdDrop(tun, Kernel, e)
            IN /\ Apply(Out(k, [tun EXCEPT !.state = "dropped"],
                            Ret("drop", "ok", "", [last |-> TRUE])), NoArg)
               /\ refs' = 0
    /\ UNCHANGED <<os, overflow_checks, wire, chan, ifreq>>

\* OsTun::configure(&mut self, cfg) on a handle nobody shares.  The
\* arguments recorded are cfg and, where calls are compared with the call
\* before them (hist), how the OS answered and whether the call repeats
\* the call just before it (same cfg, same answers).
Configure(ips, hist) ==
    /\ tun.state = "live"
    /\ refs = 1
    /\ \E ip \in ips, pi \in BOOLEAN, e \in OpEnvs :
          LET cfg == TunConfig(ip, NoName, pi)
              repeat == /\ result.op = "configure"
                        /\ args.ip = ip /\ args.packet_info = pi /\ args.env = e
          IN Apply(IF os = "linux" THEN LinuxConfigure(tun, cfg, Kernel, e)
                   ELSE FreebsdConfigure(tun, cfg, Kernel, e),
                   IF hist
                   THEN [ip |-> ip, name |-> NoName, packet_info |-> pi,
                         env |-> e, repeat |-> repeat]
                   ELSE cfg)
    /\ UNCHANGED <<os, overflow_checks, refs, wire, chan, ifreq>>

\* Tun::up
Up ==
    /\ tun.state = "live"
    /\ \E e \in OpEnvs :
          Apply(IF os = "linux" THEN LinuxSetUp(tun, TRUE, Kernel, e)
                ELSE FreebsdSetUp(tun, TRUE, Kernel, e), NoArg)
    /\ UNCHANGED <<os, overflow_checks, refs, wire, chan, ifreq>>

\* Tun::down
Down ==
    /\ tun.state = "live"
    /\ \E e \in OpEnvs :
          Apply(IF os = "linux" THEN LinuxSetUp(tun, FALSE, Kernel, e)
                ELSE FreebsdSetUp(tun, FALSE, Kernel, e), NoArg)
    /\ UNCHANGED <<os, overflow_checks, refs, wire, chan, ifreq>>

\* Tun::write_packet
WritePacket(bufs) ==
    /\ tun.state = "live"
    /\ \E buf \in bufs, ok \in BOOLEAN :
          LET e == [AllOk EXCEPT !.req_ok = ok]
          IN \E pi \in (IF os = "linux" THEN LinuxPis ELSE FreebsdAfs) :
                LET out == IF os = "linux" THEN LinuxWritePacket(tun, buf, pi, Kernel, e)
                           ELSE FreebsdWritePacket(tun, buf, pi, Kernel, e)
                IN /\ Apply(out, [buf |-> buf, pi |-> pi])
                   /\ wire' = IF out.ret.status = "ok"
                              THEN [valid |-> TRUE, bytes |-> out.ret.val.bytes,
                                    buf |-> buf, pi |-> pi, hdr |-> tun.packet_info]
                              ELSE wire
    /\ UNCHANGED <<os, overflow_checks, refs, chan, ifreq>>

\* Tun::read_packet: the device delivers a frame of its own or the frame
\* that was last written to it
ReadPacket(frames, buflens) ==
    /\ tun.state = "live"
    /\ \E buflen \in buflens, ok \in BOOLEAN,
          frame \in frames \cup (IF wire.valid THEN {wire.bytes} ELSE {}) :
          LET e == [AllOk EXCEPT !.req_ok = ok]
          IN Apply(IF os = "linux" THEN LinuxReadPacket(tun, buflen, frame, Kernel, e)
                   ELSE FreebsdReadPacket(tun, buflen, frame, Kernel, e),
                   [buflen |-> buflen, frame |-> frame])
    /\ UNCHANGED <<os, overflow_checks, refs, wire, chan, ifreq>>

Init ==
    /\ os \in {"linux", "freebsd"}
    /\ overflow_checks \in BOOLEAN
    /\ fdtab = <<>>
    /\ iface = NoIface
    /\ tun = NoTun
    /\ refs = 0
    /\ args = NoArg
    /\ calls = <<>>
    /\ result = Ret("init", "ok", "", NoArg)
    /\ wire = NoWire
    /\ chan = NoChan
    /\ ifreq = NoReq

Next ==
    \/ Create(LifeIps)
    \/ Clone
    \/ DropRef
    \/ Configure(LifeIps, FALSE)
    \/ Up
    \/ Down
    \/ WritePacket(LifePayloads)
    \/ ReadPacket(LifeFrames, {MaxBuf})

Spec == Init /\ [][Next]_vars

\* A device just created without an address, on either backend and build
InitLive ==
    /\ os \in {"linux", "freebsd"}
    /\ overflow_checks \in BOOLEAN
    /\ \E pi \in BOOLEAN :
          LET cfg == TunConfig(NoIp, SomeName(<<116, 117, 110, 48>>), pi)
              k0 == [fdtab |-> <<>>, iface |-> NoIface, calls |-> <<>>]
              out == IF os = "linux" THEN LinuxCreate(cfg, k0, AllOk)
                     ELSE FreebsdCreate(cfg, k0, AllOk)
          IN /\ args = cfg
             /\ fdtab = out.k.fdtab
             /\ iface = out.k.iface
             /\ calls = out.k.calls
             /\ tun = out.tun
             /\ result = out.ret
    /\ refs = 1
    /\ wire = NoWire
    /\ chan = NoChan
    /\ ifreq = NoReq

\* address assignment over every prefix length: one configure call on the
\* new device
NextAddr == result.op = "create" /\ Configure(Ips, FALSE)
SpecAddr == InitLive /\ [][NextAddr]_vars

\* the packet paths over every frame and buffer length: a read, or a write
\* and then a read
NextPkt ==
    \/ result.op = "create" /\ WritePacket(Payloads)
    \/ result.op # "read_packet" /\ ReadPacket(Frames, 0..MaxBuf)
SpecPkt == InitLive /\ [][NextPkt]_vars

\* configure called again and again on the new device
NextCfg == Configure(LifeIps, TRUE)
SpecCfg == InitLive /\ [][NextCfg]_vars

\* the bytes of a message of n bytes: each byte names its writer and its
\* place in all that the writer has written, so that no two bytes written
\* to a pair are equal
Msg(s, n) == [i \in 1..n |-> 100 * (s - 1) + Len(chan.written[s]) + i]
MsgLens == {0, 2, MaxMsg}
ChanBufs == {0, 1, MaxMsg - 2, MaxMsg}

\* Write::write on one side of the pair
ChanWrite ==
    /\ chan.made
    /\ \E s \in Sides, n \in MsgLens :
          /\ Len(chan.written[1]) + Len(chan.written[2]) + n <= MaxStream
          /\ Len(chan.queue[s]) < MaxQueue
          /\ LET w == ChannelWrite(chan, s, Msg(s, n))
             IN /\ chan' = w.chan
                /\ args' = [side |-> s, buf |-> Msg(s, n)]
                /\ result' = Ret("chan_write", "ok", "", [n |-> w.n])
    /\ UNCHANGED <<os, overflow_checks, fdtab, iface, tun, refs, calls, wire, ifreq>>

\* Read::read on one side of the pair
ChanRead ==
    /\ chan.made
    /\ \E s \in Sides, buflen \in ChanBufs :
          /\ chan.rx_buffer[s] # <<>> \/ chan.queue[Peer(s)] # <<>>
          /\ LET r == ChannelRead(chan, s, buflen)
             IN /\ chan' = r.chan
                /\ args' = [side |-> s, buflen |-> buflen]
                /\ result' = Ret("chan_read", "ok", "", [n |-> r.n, data |-> r.data])
    /\ UNCHANGED <<os, overflow_checks, fdtab, iface, tun, refs, calls, wire, ifreq>>

\* a ChannelTun pair just created; channel.rs is the same code on every
\* target and has no integer arithmetic that can overflow
InitChan ==
    /\ os = "linux"
    /\ overflow_checks = FALSE
    /\ fdtab = <<>>
    /\ iface = NoIface
    /\ tun = NoTun
    /\ refs = 0
    /\ args = NoArg
    /\ calls = <<>>
    /\ result = Ret("init", "ok", "", NoArg)
    /\ wire = NoWire
    /\ chan = ChannelCreate
    /\ ifreq = NoReq

NextChan == ChanWrite \/ ChanRead
SpecChan == InitChan /\ [][NextChan]_vars

\* flags another process may change on the interface
ExtFlags == {"PROMISC", "UP"}

\* up() or down() as far as get_ifflags: on failure the call returns, else
\* it holds the flags it read
BeginUpDown ==
    /\ os = "freebsd"
    /\ tun.state = "live"
    /\ ifreq.stage = "idle"
    /\ \E set \in BOOLEAN, ok \in BOOLEAN :
          LET g == FreebsdGetIfflags(tun, Kernel, [AllOk EXCEPT !.req_ok = ok])
              op == IF set THEN "up" ELSE "down"
          IN /\ fdtab' = g.k.fdtab
             /\ iface' = g.k.iface
             /\ calls' = g.k.calls
             /\ args' = NoArg
             /\ result' = IF g.ok THEN Ret(op, "running", "", NoArg)
                          ELSE Ret(op, "err", "Generic", NoArg)
             /\ ifreq' = IF g.ok
                         THEN [stage |-> "read", set |-> set, flags |-> g.flags, seen |-> {}]
                         ELSE NoReq
    /\ UNCHANGED <<os, overflow_checks, tun, refs, wire, chan>>

\* the rest of the up() or down() in progress: the write-back
EndUpDown ==
    /\ ifreq.stage = "read"
    /\ \E ok \in BOOLEAN :
          LET k == [fdtab |-> fdtab, iface |-> iface, calls |-> calls]
              out == FreebsdWriteBack(tun, ifreq.set, ifreq.flags, k,
                                      [AllOk EXCEPT !.req2_ok = ok])
          IN Apply(out, NoArg)
    /\ ifreq' = [ifreq EXCEPT !.stage = "idle", !.seen = iface.flags]
    /\ UNCHANGED <<os, overflow_checks, refs, wire, chan>>

\* another process sets or clears a flag of the interface
External ==
    /\ iface.exists
    /\ \E f \in ExtFlags :
          iface' = [iface EXCEPT !.flags = IF f \in @ THEN @ \ {f} ELSE @ \cup {f}]
    /\ UNCHANGED <<os, overflow_checks, fdtab, tun, refs, args, calls, result, wire, chan,
                   ifreq>>

\* up() and down() request by request, with other processes at work on
\* the interface between the requests
NextRace == BeginUpDown \/ EndUpDown \/ External
SpecRace == InitLive /\ [][NextRace]_vars


\* ------------------------------------------------------------------------
\* Properties
\* ------------------------------------------------------------------------
AllFds == 1..Len(fdtab)
OwnedFds == {tun.fd} \cup (IF tun.sock_fd # NoFd THEN {tun.sock_fd} ELSE {})
CallsWhere(op, fd) == {i \in 1..Len(calls) : calls[i].op = op /\ calls[i].fd = fd}

\* the handle was constructed and has gone out of scope, and it owned a
\* control descriptor
TornDown == tun.state = "dropped" /\ tun.sock_fd # NoFd

\* C1: when create returns an error, every descriptor it had opened has
\* been closed: none is left open
C1_NoDescriptorLeftOpen ==
    (result.op = "create" /\ result.status = "err") =>
        \A fd \in AllFds : ~fdtab[fd].open

\* C2: the descriptors a handle owns stay open, never closed, while an
\* owner is alive, and once the handle has gone out of scope (dropped by its
\* last owner, or by create after configure failed) each of them has been
\* closed exactly one time
C2_ReleasedExactlyOnce ==
    /\ tun.state = "live" =>
          \A fd \in OwnedFds : fdtab[fd].open /\ fdtab[fd].closes = 0
    /\ tun.state = "dropped" =>
          \A fd \in OwnedFds : ~fdtab[fd].open /\ fdtab[fd].closes = 1

\* C3: teardown of a handle with a control descriptor ends with exactly
\* these requests in this order: close of the data descriptor, the destroy
\* request on the control descriptor while it is still open, close of the
\* control descriptor
C3_TeardownOrder ==
    TornDown =>
        LET n == Len(calls)
        IN /\ n >= 3
           /\ calls[n - 2].op = "close" /\ calls[n - 2].fd = tun.fd /\ calls[n - 2].open
           /\ calls[n - 1].op = "SIOCIFDESTROY" /\ calls[n - 1].fd = tun.sock_fd
           /\ calls[n].op = "close" /\ calls[n].fd = tun.sock_fd /\ calls[n].open
           /\ \A i \in 1..n : calls[i].op = "SIOCIFDESTROY" => i = n - 1 /\ calls[i].open

\* C3 witness: a live handle with a control descriptor was dropped
C3_Witness == TornDown /\ result.op = "drop" /\ Len(calls) = 3

\* C4: whichever teardown steps fail, each of the three is made once, both
\* descriptors end up closed, and no teardown failure reaches the caller:
\* drop returns nothing and a failed create reports the error of configure
C4_TeardownTotal ==
    TornDown =>
        /\ Cardinality(CallsWhere("close", tun.fd)) = 1
        /\ Cardinality(CallsWhere("SIOCIFDESTROY", tun.sock_fd)) = 1
        /\ Cardinality(CallsWhere("close", tun.sock_fd)) = 1
        /\ \A fd \in OwnedFds : ~fdtab[fd].open
        /\ result.op = "drop" => result.status = "ok"
        /\ result.op = "create" =>
              result.err \in {"Ipv4InvalidCidr", "unimplemented", "overflow"}

\* C4 witness: the close of the data descriptor and the destroy request both
\* failed, and the control descriptor was closed all the same
C4_Witness ==
    /\ TornDown
    /\ \E i \in CallsWhere("close", tun.fd) : ~calls[i].ok
    /\ \E i \in CallsWhere("SIOCIFDESTROY", tun.sock_fd) : ~calls[i].ok
    /\ ~fdtab[tun.sock_fd].open


\* bit i (1 = most significant, 32 = least) of an address given as four
\* octets in network order
Bit(octets, i) == (octets[((i - 1) \div 8) + 1] \div (2 ^ (7 - ((i - 1) % 8)))) % 2

\* exactly the first p bits are one
LeftAligned(octets, p) == \A i \in 1..32 : Bit(octets, i) = IF i <= p THEN 1 ELSE 0

CallsOf(op) == {i \in 1..Len(calls) : calls[i].op = op}

\* C5: for every prefix length 0..32 configure derives the mask with
\* exactly that many leading one-bits and finishes without arithmetic
\* overflow or panic
C5_MaskOfEveryPrefix ==
    (os = "freebsd" /\ result.op = "configure" /\ args.ip.kind = "v4"
        /\ args.ip.prefix <= 32) =>
        /\ result.status = "ok"
        /\ ~Mask(args.ip.prefix).overflow
        /\ CallsOf("SIOCAIFADDR") # {}
        /\ \A i \in CallsOf("SIOCAIFADDR") :
              LeftAligned(calls[i].arg.ifra_mask, args.ip.prefix)

\* C6: an IPv4 prefix length above 32 is rejected with Ipv4InvalidCidr
\* carrying the prefix, and no address request goes to the OS, on either
\* backend
C6_LongPrefixRejected ==
    (result.op = "configure" /\ args.ip.kind = "v4" /\ args.ip.prefix > 32) =>
        /\ result.status = "err"
        /\ result.err = "Ipv4InvalidCidr"
        /\ result.val = [cidr |-> args.ip.prefix]
        /\ CallsOf("SIOCAIFADDR") = {}
        /\ CallsOf("RTM_NEWADDR") = {}

\* C7: in every address-alias request the address is the one given, and
\* each bit of the broadcast address is one where the mask bit is zero and
\* the address bit elsewhere, i.e. broadcast = (~mask) | address;
\* 192.168.70.100/24 gives mask 255.255.255.0 and broadcast 192.168.70.255
C7_BroadcastOfRequest ==
    \A i \in CallsOf("SIOCAIFADDR") :
        LET req == calls[i].arg
        IN /\ req.ifra_addr = args.ip.addr
           /\ LeftAligned(req.ifra_mask, args.ip.prefix)
           /\ \A j \in 1..32 :
                 Bit(req.ifra_broadaddr, j) =
                     IF Bit(req.ifra_mask, j) = 0 THEN 1 ELSE Bit(req.ifra_addr, j)
           /\ (args.ip.addr = <<192, 168, 70, 100>> /\ args.ip.prefix = 24) =>
                 /\ req.ifra_mask = <<255, 255, 255, 0>>
                 /\ req.ifra_broadaddr = <<192, 168, 70, 255>>

\* C7 witness: configure issued the request for 192.168.70.100/24
C7_Witness ==
    /\ result.op = "configure"
    /\ args.ip = V4(<<192, 168, 70, 100>>, 24)
    /\ \E i \in CallsOf("SIOCAIFADDR") :
          calls[i].arg.ifra_broadaddr = <<192, 168, 70, 255>>

AssignsV6 == result.op \in {"create", "configure"} /\ args.ip.kind = "v6"

RoundTrip ==
    /\ os = "linux"
    /\ tun.packet_info
    /\ result.op = "read_packet"
    /\ result.status = "ok"
    /\ wire.valid /\ wire.hdr /\ wire.pi.some
    /\ args.frame = wire.bytes

\* C9: with packet-info on, reading back the bytes write_packet(payload,
\* (flags, family)) produced returns the same (flags, family) and a
\* payload length of the bytes transferred minus 4; with room for the
\* payload that is the whole frame minus 4, and the payload itself
C9_PacketInfoRoundTrip ==
    RoundTrip =>
        /\ result.val.pi = <<wire.pi.flags, wire.pi.af>>
        /\ result.val.n = result.val.total - HdrLen
        /\ args.buflen >= Len(wire.buf) =>
              /\ result.val.n = Len(wire.bytes) - HdrLen
              /\ result.val.buf = wire.buf

\* C9 witness: flags 0x0001 and family 0x0800 came back with the payload
C9_Witness ==
    /\ RoundTrip
    /\ wire.pi = SomePi(1, 2048)
    /\ result.val.pi = <<1, 2048>>
    /\ Len(wire.buf) = MaxPayload
    /\ result.val.buf = wire.buf

\* C10: with packet-info off, read_packet passes only the caller's buffer
\* to readv, returns the number of bytes the read delivered, all of them
\* in the buffer, and the zero metadata value
C10_NoHeaderWhenDisabled ==
    (result.op = "read_packet" /\ result.status = "ok" /\ ~tun.packet_info) =>
        LET n == Min(Len(args.frame), args.buflen)
        IN /\ Len(calls) = 1
           /\ calls[1].op = "readv"
           /\ calls[1].arg.idx = 1
           /\ calls[1].arg.len = args.buflen
           /\ result.val.n = n
           /\ result.val.buf = SubSeq(args.frame, 1, n)
           /\ result.val.pi = IF os = "linux" THEN <<0, 0>> ELSE U32_ZERO

\* C10 witness: a data-only frame of MaxPayload bytes was read whole
C10_Witness ==
    /\ result.op = "read_packet"
    /\ result.status = "ok"
    /\ ~tun.packet_info
    /\ args.frame = Payload(MaxPayload)
    /\ result.val.n = MaxPayload
    /\ result.val.buf = Payload(MaxPayload)

\* the underlying read of the last read_packet succeeded
ReadDone == result.op = "read_packet" /\ Len(calls) = 1 /\ calls[1].op = "readv" /\ calls[1].ok

\* the number of bytes that read transferred
Transferred == Readv(args.frame, tun.packet_info, args.buflen).n

\* C11: with packet-info on, a read that transfers fewer than 4 bytes
\* (0 included) makes read_packet return an error: never Ok with a
\* metadata value decoded from a partial header or with a length computed
\* from a negative number
C11_ShortReadIsError ==
    (ReadDone /\ tun.packet_info /\ Transferred < HdrLen) =>
        result.status = "err"

\* C12: on every backend the count a successful read_packet returns is the
\* number of bytes read into the caller's buffer; with packet-info on that
\* is the bytes transferred minus the 4 header bytes
C12_CountIsPayload ==
    (ReadDone /\ result.status = "ok") =>
        /\ result.val.n = Len(result.val.buf)
        /\ tun.packet_info => result.val.n = Transferred - HdrLen

\* C13: read_packet with a buffer shorter than 5 bytes returns an error and
\* makes no read on the device
C13_SmallBufferRejected ==
    (result.op = "read_packet" /\ args.buflen < HdrLen + 1) =>
        /\ result.status = "err"
        /\ CallsOf("readv") = {}

\* create was given a device name on the backend that takes one
NamedCreate == os = "linux" /\ result.op = "create" /\ args.name.some

\* the name validation of create accepts a name of n bytes without NUL
NameLenAccepted(n) ==
    LinuxCreate(TunConfig(NoIp, SomeName(NameOfLen(n)), FALSE),
                [fdtab |-> <<>>, iface |-> NoIface, calls |-> <<>>], AllOk).ret.status = "ok"

\* C14: a name of the longest accepted length passes validation, one byte
\* more fails with DeviceNameTooLong whose max is the longest length that is
\* accepted, and a name with an embedded NUL fails with
\* DeviceNameContainsNuls whose pos is the offset of the first NUL
C14_NameValidation ==
    NamedCreate =>
        LET s == args.name.s
            nuls == {i \in 1..Len(s) : s[i] = 0}
        IN /\ nuls # {} =>
                 /\ result.err = "DeviceNameContainsNuls"
                 /\ \A i \in nuls : result.val.pos <= i - 1
                 /\ result.val.pos + 1 \in nuls
           /\ (nuls = {} /\ result.err = "DeviceNameTooLong") =>
                 /\ result.val.len = Len(s)
                 /\ Len(s) = result.val.max + 1 \/ ~NameLenAccepted(Len(s) - 1)
                 /\ NameLenAccepted(result.val.max)
                 /\ ~NameLenAccepted(result.val.max + 1)
           /\ (nuls = {} /\ NameLenAccepted(Len(s))) =>
                 result.err \notin {"DeviceNameTooLong", "DeviceNameContainsNuls"}
           /\ (nuls = {} /\ ~NameLenAccepted(Len(s))) => result.err = "DeviceNameTooLong"

\* the OS requests of the last operation that assign an address
AddrCalls == CallsOf("SIOCAIFADDR") \cup CallsOf("RTM_NEWADDR")

\* what a configure that returned Ok asked of the OS: the address request
\* is made exactly when an address is given, the packet-info request only
\* when packet-info is asked for, each whatever the other field is
FieldsApart ==
    (result.op = "configure" /\ result.status = "ok") =>
        /\ AddrCalls # {} <=> args.ip.kind # "none"
        /\ CallsOf("TUNSIFHEAD") # {} <=> (os = "freebsd" /\ args.packet_info)
        /\ \A i \in AddrCalls :
              (/\ calls[i].ok /\ iface.exists
               /\ os = "linux" => args.env.accepted /\ PrefixFits(calls[i].arg))
                  => iface.addr = calls[i].arg
        /\ \A i \in CallsOf("TUNSIFHEAD") : calls[i].ok => iface.head

\* a configure step that repeats the configure before it returns what that
\* one returned and leaves the handle and the interface as that one left
\* them; any configure step changes the address only by an address
\* request and the packet-info mode only by a packet-info request
SecondLikeFirst ==
        /\ (result.op = "configure" /\ result'.op = "configure" /\ args'.repeat) =>
              /\ result' = result
              /\ iface' = iface
              /\ tun' = tun
              /\ fdtab' = fdtab
        /\ (result'.op = "configure" /\ iface'.addr # iface.addr) =>
              \E i \in 1..Len(calls') : calls'[i].op \in {"SIOCAIFADDR", "RTM_NEWADDR"}
        /\ (result'.op = "configure" /\ iface'.head # iface.head) =>
              \E i \in 1..Len(calls') : calls'[i].op = "TUNSIFHEAD"

C16_DownKeepsDevice ==
    (tun.state = "live" /\ result.op \in {"up", "down"} /\ result.status = "ok") =>
        /\ iface.exists
        /\ "UP" \in iface.flags <=> result.op = "up"

\* the OS requests of the last operation that configure makes
ConfigureCalls == AddrCalls \cup CallsOf("TUNSIFHEAD")

\* C17: configure, and create through it, never returns Ok when the OS
\* rejected the address request or the packet-info request it made
C17_RejectionSurfaced ==
    (result.op \in {"create", "configure"} /\ \E i \in ConfigureCalls : ~calls[i].ok) =>
        result.status # "ok"

\* the last operation was a write_packet that wrote
Wrote == result.op = "write_packet" /\ result.status = "ok"

\* C19: write_packet makes one gathered write; with packet-info on the
\* bytes written are a 4-byte header that carries the metadata and then the
\* payload, and the count returned includes the 4 header bytes; with
\* packet-info off the bytes written are the payload alone and the count is
\* its length, whatever metadata was passed
C19_WriteMirrorsRead ==
    Wrote =>
        LET bytes == result.val.bytes
        IN /\ Len(calls) = 1
           /\ calls[1].op = "writev"
           /\ calls[1].arg.bytes = bytes
           /\ tun.packet_info =>
                 /\ Len(bytes) = HdrLen + Len(args.buf)
                 /\ SubSeq(bytes, HdrLen + 1, Len(bytes)) = args.buf
                 /\ result.val.n = Len(args.buf) + HdrLen
                 /\ os = "freebsd" => FromBeBytes(SubSeq(bytes, 1, HdrLen)) = args.pi
                 /\ (os = "linux" /\ args.pi.some) =>
                       /\ U16FromLe(SubSeq(bytes, 1, 2)) = args.pi.flags
                       /\ U16FromBe(SubSeq(bytes, 3, 4)) = args.pi.af
           /\ ~tun.packet_info =>
                 /\ bytes = args.buf
                 /\ result.val.n = Len(args.buf)

\* C19 witness: a payload of MaxPayload bytes went out behind its header
C19_Witness ==
    /\ Wrote
    /\ tun.packet_info
    /\ Len(args.buf) = MaxPayload
    /\ result.val.n = MaxPayload + HdrLen

\* what up() and down() of the flag-reading backend ask of the OS in one
\* step: the flags are read first; the flags written are the interface's
\* flags before the step with the up bit set (up) or cleared (down); when
\* the read fails nothing is written and the error is returned
UpDownStep ==
    (os = "freebsd" /\ result'.op \in {"up", "down"}) =>
        LET written == {i \in 1..Len(calls') : calls'[i].op = "SIOCSIFFLAGS"}
            want == IF result'.op = "up" THEN iface.flags \cup {"UP"}
                    ELSE iface.flags \ {"UP"}
        IN /\ Len(calls') >= 1
           /\ calls'[1].op = "SIOCGIFFLAGS"
           /\ \A i \in written : i = 2 /\ calls'[i].arg.flags = want
           /\ ~calls'[1].ok =>
                 /\ written = {}
                 /\ result'.status = "err"
                 /\ iface' = iface
           /\ iface'.flags \ {"UP"} = iface.flags \ {"UP"}
           /\ result'.status = "ok" => written # {} /\ iface'.flags = want
           /\ [iface' EXCEPT !.flags = {}] = [iface EXCEPT !.flags = {}]

RECURSIVE Flatten(_)
Flatten(q) == IF q = <<>> THEN <<>> ELSE Head(q) \o Flatten(Tail(q))

\* all that side s wrote is, in order and once each, what its peer has
\* read, then what the peer holds buffered, then what is still in the
\* channel
Conserved ==
    \A s \in Sides :
        chan.written[s] = chan.got[Peer(s)] \o chan.rx_buffer[Peer(s)] \o Flatten(chan.queue[s])

\* a write returns the length of what it was given
WriteWhole == result.op = "chan_write" => result.val.n = Len(args.buf)

\* a read step hands over the first min(pending, buf.len()) bytes of what
\* is pending for the reader, the buffered bytes or else the next message,
\* and keeps the rest of it for the reads that follow
ReadStep ==
    result'.op = "chan_read" =>
        LET s == args'.side
            buffered == chan.rx_buffer[s]
            pending == IF buffered # <<>> THEN buffered ELSE Head(chan.queue[Peer(s)])
            n == Min(Len(pending), args'.buflen)
        IN /\ result'.val.n = n
           /\ result'.val.data = SubSeq(pending, 1, n)
           /\ chan'.got[s] = chan.got[s] \o SubSeq(pending, 1, n)
           /\ chan'.rx_buffer[s] = SubSeq(pending, n + 1, Len(pending))
           /\ chan'.got[Peer(s)] = chan.got[Peer(s)]
           /\ chan'.written = chan.written

\* C18: on the ChannelTun pair the bytes the reads of one side return are,
\* in order, a prefix of the bytes the other side wrote, nothing lost and
\* nothing twice; a read into a buffer shorter than what is pending returns
\* exactly buf.len() bytes and the following reads return the rest; a write
\* returns the full length; bytes written on one side are read only on the
\* other
C18_LoopbackStream == [](Conserved /\ WriteWhole) /\ [][ReadStep]_vars

\* C18 witness: MaxMsg bytes were written on side 1; side 2 read them with
\* a buffer two bytes short and this read returned the last 2
C18_Witness ==
    /\ result.op = "chan_read"
    /\ args.side = 2
    /\ args.buflen = MaxMsg - 2
    /\ result.val.n = 2
    /\ chan.written[1] = [i \in 1..MaxMsg |-> i]
    /\ chan.got[2] = chan.written[1]
    /\ result.val.data = <<MaxMsg - 1, MaxMsg>>

\* the errors of create's checks of the device name
ValidationErrs == {"DeviceNameRequired", "DeviceNameContainsNuls", "DeviceNameTooLong"}

\* C25: on the backend that requires a name, a create that fails the
\* validation of the name (missing, embedded NUL, too long) returns before
\* the device node is opened: it opens no descriptor and makes no OS
\* request; a missing name gives DeviceNameRequired and a name with a NUL
\* gives DeviceNameContainsNuls
C25_ValidationBeforeOpen ==
    (os = "linux" /\ result.op = "create") =>
        /\ result.err \in ValidationErrs =>
              /\ result.status = "err"
              /\ calls = <<>>
              /\ fdtab = <<>>
              /\ ~iface.exists
              /\ tun = NoTun
        /\ ~args.name.some => result.err = "DeviceNameRequired"
        /\ (args.name.some /\ \E i \in 1..Len(args.name.s) : args.name.s[i] = 0) =>
              result.err = "DeviceNameContainsNuls"
        /\ (args.name.some /\ Len(args.name.s) > IFNAMSIZ) => result.err \in ValidationErrs

\* C25 witness: create refused a name of IFNAMSIZ bytes and opened nothing
C25_Witness ==
    /\ os = "linux"
    /\ result.op = "create"
    /\ result.err = "DeviceNameTooLong"
    /\ Len(args.name.s) = IFNAMSIZ
    /\ fdtab = <<>>

\* the requests that configure the interface, and those that move packets
ControlReqs == {"SIOCAIFADDR", "SIOCGIFFLAGS", "SIOCSIFFLAGS", "SIOCIFDESTROY"}
PacketReqs == {"readv", "writev"}

\* C23: on the ioctl backend every configuration request (address
\* assignment, flag query, flag set, interface destroy) is made on the
\* control socket descriptor and never on the data descriptor, and every
\* packet read and write is made on the data descriptor and never on the
\* control socket
C23_DescriptorRoles ==
    os = "freebsd" =>
        \A i \in 1..Len(calls) :
            /\ calls[i].op \in ControlReqs =>
                  /\ tun.sock_fd # NoFd
                  /\ calls[i].fd = tun.sock_fd
                  /\ calls[i].fd # tun.fd
                  /\ fdtab[calls[i].fd].kind = "sock"
            /\ calls[i].op \in PacketReqs =>
                  /\ calls[i].fd = tun.fd
                  /\ calls[i].fd # tun.sock_fd
                  /\ fdtab[calls[i].fd].kind = "tun"

\* C23 witness: an address was assigned through the control socket
C23_Witness ==
    /\ os = "freebsd"
    /\ result.op = "configure"
    /\ \E i \in CallsOf("SIOCAIFADDR") : calls[i].ok /\ calls[i].fd = tun.sock_fd

\* C24: the handle's packet_info flag, which decides whether read_packet
\* and write_packet pass the header segment, equals the packet-info mode
\* of the OS device after every create and configure: a configure that
\* turns the mode on turns the flag on, and a mode request that failed
\* leaves the flag off
C24_HandleKnowsMode ==
    (tun.state = "live" /\ iface.exists /\ result.op \in {"create", "configure"}) =>
        tun.packet_info = iface.head

\* configure was asked for an address on the message-protocol backend
LinuxAssign == os = "linux" /\ result.op = "configure" /\ args.ip.kind # "none"

WroteBack == ifreq.stage = "read" /\ ifreq'.stage = "idle" /\ result'.status = "ok"

\* the write-back installs the flags that were read, with the up bit set
\* or cleared, whatever the interface's flags have become since the read:
\* a flag another process changed in between is put back as it was read
WriteBackOverwrites ==
    WroteBack =>
        /\ iface'.flags = IF ifreq.set THEN ifreq.flags \cup {"UP"}
                          ELSE ifreq.flags \ {"UP"}
        /\ \A f \in ExtFlags \ {"UP"} : f \in iface'.flags <=> f \in ifreq.flags

\* C21: the read-modify-write of up() and down() is not atomic: a change
\* another process makes to the interface flags between the read of the
\* flags and the write-back is overwritten by the write-back
C21_LostUpdate == [][WriteBackOverwrites]_vars

\* C21 witness: a flag that was clear when up() read the flags was set by
\* another process before the write-back, and is clear again after it
C21_Witness ==
    /\ ifreq.stage = "idle"
    /\ ifreq.set
    /\ result.op = "up"
    /\ result.status = "ok"
    /\ "PROMISC" \notin ifreq.flags
    /\ "PROMISC" \in ifreq.seen
    /\ "PROMISC" \notin iface.flags

====
